---- MODULE Spec2Model ----
(***************************************************************************)
(* TransPub: the boundary-aware text segmenters, the rate limiter, the     *)
(* retry loops and the resumable chapter pipeline of the four stages that  *)
(* talk to the remote service (cleanup, translation, summarization,        *)
(* speech).                                                                *)
(*                                                                         *)
(* A text is a sequence of one-character strings.  Python's 0-based        *)
(* indices are kept in the operators that model loops over str, and are    *)
(* converted at the point of access (Slice, CharAt).                       *)
(***************************************************************************)
EXTENDS Integers, Sequences, FiniteSets, TLC

\* ------------------------------------------------------------------------
\* Bounds of the model
\* ------------------------------------------------------------------------
\* longest input text of the segmenter specification
MaxLen == 8
\* config.CHUNK_SIZE, PREPROCESS_CHUNK_SIZE and MAX_AUDIO_CHUNK scaled down
CHUNK_SIZE == 4
PREPROCESS_CHUNK_SIZE == 5
MAX_AUDIO_CHUNK == 4

\* ------------------------------------------------------------------------
\* Characters and Python str primitives
\* ------------------------------------------------------------------------
SP == " "
NL == "\n"
Alphabet == {"a", ".", SP, NL}
Whitespace == {SP, NL, "\t", "\r"}
NLNL == <<NL, NL>>

Min(a, b) == IF a < b THEN a ELSE b
SetMax(S) == CHOOSE x \in S : \A y \in S : y <= x

\* s[i:j], 0 <= i <= j <= len(s)
Slice(s, i, j) == SubSeq(s, i + 1, j)
\* s[i]
CharAt(s, i) == s[i + 1]
IsSpace(c) == c \in Whitespace

RECURSIVE LStrip(_)
LStrip(s) == IF s # <<>> /\ IsSpace(Head(s)) THEN LStrip(Tail(s)) ELSE s
RECURSIVE RStrip(_)
RStrip(s) ==
    IF s # <<>> /\ IsSpace(s[Len(s)]) THEN RStrip(SubSeq(s, 1, Len(s) - 1)) ELSE s
\* str.strip()
Strip(s) == RStrip(LStrip(s))

\* str.split(sep) for a non-empty separator: left to right, non-overlapping
RECURSIVE SplitFrom(_, _, _, _)
SplitFrom(s, sep, i, start) ==
    IF i + Len(sep) > Len(s) THEN << Slice(s, start, Len(s)) >>
    ELSE IF Slice(s, i, i + Len(sep)) = sep
         THEN << Slice(s, start, i) >> \o SplitFrom(s, sep, i + Len(sep), i + Len(sep))
         ELSE SplitFrom(s, sep, i + 1, start)
Split(s, sep) == SplitFrom(s, sep, 0, 0)

\* sep.join(parts)
RECURSIVE Join(_, _)
Join(parts, sep) ==
    IF parts = <<>> THEN <<>>
    ELSE IF Len(parts) = 1 THEN parts[1]
    ELSE parts[1] \o sep \o Join(Tail(parts), sep)

\* str.rfind(pat): the highest 0-based index where pat occurs, or -1
RFind(s, pat) ==
    LET I == {i \in 0..(Len(s) - Len(pat)) : Slice(s, i, i + Len(pat)) = pat}
    IN IF I = {} THEN -1 ELSE SetMax(I)

\* c in s
Contains(s, c) == \E i \in 1..Len(s) : s[i] = c

\* [c for c in chunks if c]
NonEmpty(chunks) == SelectSeq(chunks, LAMBDA c : c # <<>>)

\* ------------------------------------------------------------------------
\* translate.py: _split_sentences, split_into_chunks
\* ------------------------------------------------------------------------
\* the CJK characters are written by their code points
enders == {".", "!", "?", "U+3002", "U+FF01", "U+FF1F"}
closers == {"\"", "'", ")", "]", "U+201D", "U+2019", "U+300F", "U+300D", "U+00BB", "U+FF09"}

RECURSIVE SkipClosers(_, _)
SkipClosers(t, j) ==
    IF j < Len(t) /\ CharAt(t, j) \in closers THEN SkipClosers(t, j + 1) ELSE j
RECURSIVE SkipSpaces(_, _)
SkipSpaces(t, k) ==
    IF k < Len(t) /\ IsSpace(CharAt(t, k)) THEN SkipSpaces(t, k + 1) ELSE k

AppendIfText(sents, piece) ==
    IF Strip(piece) # <<>> THEN Append(sents, Strip(piece)) ELSE sents

\* one iteration of `while i < n` of _split_sentences: the new i, start, sentences
SentStep(t, i, start, sents) ==
    LET n == Len(t)
        next == [i |-> i + 1, start |-> start, sents |-> sents]
    IN IF CharAt(t, i) \in enders
       THEN LET j == SkipClosers(t, i + 1) IN
            IF j >= n \/ IsSpace(CharAt(t, j))
            THEN LET k == SkipSpaces(t, j) IN
                 [i |-> k, start |-> k, sents |-> AppendIfText(sents, Slice(t, start, j))]
            ELSE next
       ELSE next
\* the trailing remainder of _split_sentences
SentRemainder(t, start, sents) ==
    IF start < Len(t) THEN AppendIfText(sents, Slice(t, start, Len(t))) ELSE sents

\* the while loop of _split_sentences and its trailing remainder
RECURSIVE SentLoop(_, _, _, _)
SentLoop(t, i, start, sents) ==
    IF i >= Len(t) THEN SentRemainder(t, start, sents)
    ELSE LET st == SentStep(t, i, start, sents) IN SentLoop(t, st.i, st.start, st.sents)
_split_sentences(t) == SentLoop(t, 0, 0, <<>>)

\* the packing state shared by the paragraph loops
NoPacking == [chunks |-> <<>>, current |-> <<>>, current_len |-> 0]

\* flush_current() of split_into_chunks and of _split_preprocess_chunks
flush_current(st) ==
    IF st.current # <<>>
    THEN [chunks |-> Append(st.chunks, Strip(Join(st.current, NLNL))),
          current |-> <<>>, current_len |-> 0]
    ELSE st

\* the hard cut without the search for a space: every piece is a full window
RECURSIVE TransHardCutExact(_, _, _)
TransHardCutExact(s, i, chunks) ==
    IF i >= Len(s) THEN chunks
    ELSE LET end == Min(i + CHUNK_SIZE, Len(s))
         IN TransHardCutExact(s, end, Append(chunks, Strip(Slice(s, i, end))))

\* one iteration of the hard-cut loop cutting at any space found in the window
TransCutStepAnySpace(s, i) ==
    LET end0 == Min(i + CHUNK_SIZE, Len(s))
        part0 == Slice(s, i, end0)
        cut == RFind(part0, <<SP>>)
        atSpace == end0 < Len(s) /\ cut >= 0
    IN [part |-> IF atSpace THEN Slice(part0, 0, cut) ELSE part0,
        end |-> IF atSpace THEN i + cut ELSE end0]

\* one iteration of `while i < len(s)` of the hard cut: the part and the new i
TransCutStep(s, i) ==
    LET end0 == Min(i + CHUNK_SIZE, Len(s))
        part0 == Slice(s, i, end0)
        cut == RFind(part0, <<SP>>)
        atSpace == end0 < Len(s) /\ 10 * cut > 6 * CHUNK_SIZE
    IN [part |-> IF atSpace THEN Slice(part0, 0, cut) ELSE part0,
        end |-> IF atSpace THEN i + cut ELSE end0]

\* the hard cut of an ultra-long sentence
RECURSIVE TransHardCut(_, _, _)
TransHardCut(s, i, chunks) ==
    IF i >= Len(s) THEN chunks
    ELSE LET st == TransCutStep(s, i)
         IN TransHardCut(s, st.end, Append(chunks, Strip(st.part)))

\* the sentence loop of split_into_chunks, with the final `if buf`
RECURSIVE TransPack(_, _, _, _, _)
TransPack(sents, k, buf, buf_len, chunks) ==
    IF k > Len(sents)
    THEN IF buf # <<>> THEN Append(chunks, Strip(Join(buf, <<SP>>))) ELSE chunks
    ELSE LET sent == sents[k]
             sep_in == IF buf # <<>> THEN 1 ELSE 0
         IN IF buf_len + sep_in + Len(sent) <= CHUNK_SIZE
            THEN TransPack(sents, k + 1, Append(buf, sent),
                           buf_len + sep_in + Len(sent), chunks)
            ELSE IF buf # <<>>
                 THEN TransPack(sents, k + 1, <<sent>>, Len(sent),
                                Append(chunks, Strip(Join(buf, <<SP>>))))
                 ELSE TransPack(sents, k + 1, <<>>, 0, TransHardCut(sent, 0, chunks))

\* one iteration of `for para in paragraphs` of split_into_chunks
TransPara(st, para) ==
    LET sep == IF st.current # <<>> THEN 2 ELSE 0 IN
    IF para = <<>>
    THEN IF st.current_len + sep <= CHUNK_SIZE
         THEN [st EXCEPT !.current = Append(@, <<>>), !.current_len = @ + sep]
         ELSE flush_current(st)
    ELSE IF st.current_len + sep + Len(para) <= CHUNK_SIZE
         THEN [st EXCEPT !.current = Append(@, para),
                         !.current_len = @ + sep + Len(para)]
         ELSE LET flushed == flush_current(st) IN
              [flushed EXCEPT !.chunks =
                  TransPack(_split_sentences(para), 1, <<>>, 0, flushed.chunks)]

RECURSIVE TransLoop(_, _, _)
TransLoop(paras, k, st) ==
    IF k > Len(paras) THEN st ELSE TransLoop(paras, k + 1, TransPara(st, paras[k]))

split_into_chunks(t) ==
    NonEmpty(flush_current(TransLoop(Split(t, NLNL), 1, NoPacking)).chunks)

\* ------------------------------------------------------------------------
\* preprocess.py: _split_preprocess_chunks
\* ------------------------------------------------------------------------
\* one iteration of `while i < len(p)` of the hard cut: the chunk and the new i
PreCutStep(p, i, max_chars) ==
    LET end0 == Min(i + max_chars, Len(p))
        chunk0 == Slice(p, i, end0)
        last_break == SetMax({RFind(chunk0, <<".", SP>>), RFind(chunk0, <<"!", SP>>),
                              RFind(chunk0, <<"?", SP>>), RFind(chunk0, <<".", NL>>),
                              RFind(chunk0, <<SP>>)})
        atBreak == end0 < Len(p) /\ 2 * last_break > max_chars
        chunk == IF atBreak THEN Slice(chunk0, 0, last_break + 1) ELSE chunk0
    IN [chunk |-> chunk, end |-> IF atBreak THEN i + Len(chunk) ELSE end0]

\* the hard cut of a paragraph longer than max_chars
RECURSIVE PreHardCut(_, _, _, _)
PreHardCut(p, i, chunks, max_chars) ==
    IF i >= Len(p) THEN chunks
    ELSE LET st == PreCutStep(p, i, max_chars)
         IN PreHardCut(p, st.end, Append(chunks, Strip(st.chunk)), max_chars)

\* one iteration of `for para in paras` of _split_preprocess_chunks
PrePara(st, para, max_chars) ==
    LET sep == IF st.current # <<>> THEN 2 ELSE 0 IN
    IF st.current_len + sep + Len(para) <= max_chars
    THEN [st EXCEPT !.current = Append(@, para), !.current_len = @ + sep + Len(para)]
    ELSE IF st.current = <<>>
         THEN [st EXCEPT !.chunks = PreHardCut(para, 0, @, max_chars)]
         ELSE [flush_current(st) EXCEPT !.current = <<para>>, !.current_len = Len(para)]

RECURSIVE PreLoop(_, _, _, _)
PreLoop(paras, k, st, max_chars) ==
    IF k > Len(paras) THEN st
    ELSE PreLoop(paras, k + 1, PrePara(st, paras[k], max_chars), max_chars)

_split_preprocess_chunks(t, max_chars) ==
    NonEmpty(flush_current(PreLoop(Split(t, NLNL), 1, NoPacking, max_chars)).chunks)

\* ------------------------------------------------------------------------
\* generate_audio.py: split_by_paragraphs
\* ------------------------------------------------------------------------
delimiters == <<"U+3002", "U+FF01", "U+FF1F", ".", "!", "?">>

\* AudioSentences without re-attaching the delimiter to each part
AudioSentencesNoDelimiter(para) ==
    LET found == {d \in 1..Len(delimiters) : Contains(para, delimiters[d])} IN
    IF found = {} THEN <<para>>
    ELSE Split(para, <<delimiters[CHOOSE d \in found : \A e \in found : d <= e]>>)

\* sentences of a large paragraph: split on the first delimiter it contains
AudioSentences(para) ==
    LET found == {d \in 1..Len(delimiters) : Contains(para, delimiters[d])} IN
    IF found = {} THEN <<para>>
    ELSE LET delimiter == delimiters[CHOOSE d \in found : \A e \in found : d <= e]
             parts == Split(para, <<delimiter>>)
         IN [x \in 1..Len(parts) |->
                IF x < Len(parts) THEN Append(parts[x], delimiter) ELSE parts[x]]

\* `for sent in sentences` with the final `if temp_chunk`
RECURSIVE AudioPack(_, _, _, _, _)
AudioPack(sents, k, temp_chunk, temp_size, chunks) ==
    IF k > Len(sents)
    THEN IF temp_chunk # <<>> THEN Append(chunks, Join(temp_chunk, <<>>)) ELSE chunks
    ELSE LET sent == sents[k] IN
         IF temp_size + Len(sent) > MAX_AUDIO_CHUNK /\ temp_chunk # <<>>
         THEN AudioPack(sents, k + 1, <<sent>>, Len(sent),
                        Append(chunks, Join(temp_chunk, <<>>)))
         ELSE AudioPack(sents, k + 1, Append(temp_chunk, sent),
                        temp_size + Len(sent), chunks)

\* chunks.append('\n\n'.join(current_chunk)) when current_chunk is non-empty
AudioFlush(st) ==
    IF st.current # <<>>
    THEN [st EXCEPT !.chunks = Append(@, Join(st.current, NLNL))]
    ELSE st

\* one iteration of `for para in paragraphs` of split_by_paragraphs
AudioPara(st, raw) ==
    LET para == Strip(raw)
        para_size == Len(para)
    IN IF para = <<>> THEN st
       ELSE IF para_size > MAX_AUDIO_CHUNK
            THEN [chunks |-> AudioPack(AudioSentences(para), 1, <<>>, 0,
                                       AudioFlush(st).chunks),
                  current |-> IF st.current # <<>> THEN <<>> ELSE st.current,
                  current_len |-> IF st.current # <<>> THEN 0 ELSE st.current_len]
            ELSE IF st.current_len + para_size + 2 > MAX_AUDIO_CHUNK
                 THEN [chunks |-> AudioFlush(st).chunks,
                       current |-> <<para>>, current_len |-> para_size]
                 ELSE [st EXCEPT !.current = Append(@, para),
                                 !.current_len = @ + para_size + 2]

RECURSIVE AudioLoop(_, _, _)
AudioLoop(paras, k, st) ==
    IF k > Len(paras) THEN st ELSE AudioLoop(paras, k + 1, AudioPara(st, paras[k]))

split_by_paragraphs(t) == AudioFlush(AudioLoop(Split(t, NLNL), 1, NoPacking)).chunks

\* ------------------------------------------------------------------------
\* State
\* ------------------------------------------------------------------------
VARIABLES
    text,           \* the segmenter's input
    seg,            \* which segmenter or loop has run: "none", "translate", "preprocess",
                    \* "audio", "sentences", "translate_cut", "preprocess_cut", "sentence_loop"
    chunks,         \* what it returned
    cursor,         \* a while loop run step by step: its i, its start, whether it runs
    stage,          \* the script that runs: "cleanup", "translation", "summarization", "speech"
    clock,          \* "exact": only sleeps advance time, by their argument; "real": calls
                    \* take time and sleeps may oversleep
    maxRuns,        \* how many times the script is started
    max_retries,    \* config.MAX_RETRIES as the environment sets it
    nchunks,        \* nchunks[c]: how many chunks the stage's segmenter returns for chapter c
    run,            \* runs started so far
    pc,             \* position of the running script
    ch,             \* the chapter loop's position (1-based position in the sorted file list)
    idx,            \* the chunk loop's idx
    attempt,        \* the retry loop's attempt
    files,          \* the output directory: files[<<c, 0>>] is chapter c's final artifact,
                    \* files[<<c, i>>] its part i (speech)
    acc,            \* translations / outputs: the per-chunk results collected in memory
    success_count,  \* generate_audio_for_chapter's success_count
    success,        \* generate_audio's success
    request_times,  \* RateLimiter.request_times, each timestamp t held as its age now - t
    ret,            \* the value the retry function returned
    \* history
    admitted,       \* the last TTS_QPM + 1 timestamps this limiter recorded, as ages
    loopCalls,      \* remote calls invoked by the current retry loop
    failures,       \* how many of them raised
    sleeps,         \* arguments of the backoff time.sleep calls of the current retry loop
    limiterSleeps,  \* time.sleep calls made by wait_if_needed inside the current retry loop
    segs,           \* segmentations performed in this run
    sent,           \* <<chapter, idx>> of every chunk this run sent to the service
    snap,           \* the output directory as this run found it
    exhausted,      \* <<chapter, idx>> of the retry loops of this run that ran out of attempts
    reported,       \* reported[c]: how this run left chapter c
    lastMerge       \* the last merge_audio_parts call: arguments, directory before, result

segVars == <<text, seg, chunks, cursor>>
pipeVars == <<stage, clock, maxRuns, max_retries, nchunks, run, pc, ch, idx, attempt, files, acc,
              success_count, success, request_times, ret, admitted, loopCalls, failures,
              sleeps, limiterSleeps, segs, sent, snap, exhausted, reported, lastMerge>>
vars == <<segVars, pipeVars>>

\* ------------------------------------------------------------------------
\* Bounds and constants of the pipeline
\* ------------------------------------------------------------------------
NumChapters == 2
MaxChunks == 2
MaxRuns == 2
\* how much longer than asked a time.sleep may take, in seconds
MaxOversleep == 1
\* config.TTS_QPM (from the environment); it divides 60, so min_delay is whole seconds
TTS_QPM == 2
\* config.MAX_RETRIES, its default
MAX_RETRIES == 3
WINDOW == 60

Chapters == 1..NumChapters
Stages == {"cleanup", "translation", "summarization", "speech"}
Paths == Chapters \X (0..MaxChunks)

\* ------------------------------------------------------------------------
\* Files and values
\* ------------------------------------------------------------------------
NoFile == [exists |-> FALSE, data |-> <<>>]
File(d) == [exists |-> TRUE, data |-> d]
EmptyDir == [p \in Paths |-> NoFile]

Token(kind, c, i) == [kind |-> kind, ch |-> c, idx |-> i]
\* chunk i of chapter c, as the segmenter returned it
Chunk(c, i) == Token("chunk", c, i)
\* response.choices[0].message.content.strip() for that chunk
Out(c, i) == Token("out", c, i)
\* f"[Translation failed for chunk {idx}]"
FailMark(i) == Token("failmark", 0, i)
Summary(c) == Token("summary", c, 0)
\* the first line of the chapter file, which the text stages copy to their output
Title(c) == Token("title", c, 0)
\* the separator "\n\n"
BlankLine == Token("blankline", 0, 0)
EmptyStr == Token("", 0, 0)
None == Token("None", 0, 0)
True == Token("True", 0, 0)
False == Token("False", 0, 0)

\* the bytes the service streams for chunk i of chapter c
Audio(c, i) == <<100 * c + 10 * i + 1, 100 * c + 10 * i + 2>>
\* what stream_to_file has written when the stream breaks
Truncated(c, i) == <<100 * c + 10 * i + 1>>

\* 2 ** attempt taken as 1 whatever the attempt
Pow2AlwaysOne(n) == 1

\* 2 ** n
RECURSIVE Pow2(_)
Pow2(n) == IF n = 0 THEN 1 ELSE 2 * Pow2(n - 1)

\* ------------------------------------------------------------------------
\* generate_audio.py: RateLimiter
\* ------------------------------------------------------------------------
\* RateLimiter.__init__: self.min_delay = 60.0 / qpm
min_delay == 60 \div TTS_QPM

\* ages are kept exactly up to WINDOW and saturate above it
Saturated == WINDOW + 1
Older(age, d) == Min(age + d, Saturated)
Elapse(ts, d) == [k \in 1..Len(ts) |-> Older(ts[k], d)]
Oversleep == IF clock = "real" THEN 0..MaxOversleep ELSE {0}

\* append to a deque(maxlen = n)
DequeAppend(q, x, n) == IF Len(q) >= n THEN Append(Tail(q), x) ELSE Append(q, x)

\* wait_if_needed with the first sleep taking o1 and the second o2 longer than asked:
\* the deque afterwards, the time that passed, how many sleeps were made, and
\* whether the second (window) wait slept
WaitIfNeededNoSleep(rt, o1, o2) ==
    [times |-> DequeAppend(rt, 0, TTS_QPM), elapsed |-> 0, slept |-> 0, capped |-> FALSE]

WaitIfNeededWindowOnly(rt, o1, o2) ==
    LET full == Len(rt) >= TTS_QPM /\ rt[1] < WINDOW
        e2 == IF full THEN (WINDOW - rt[1]) + o2 ELSE 0
    IN [times |-> DequeAppend(Elapse(rt, e2), 0, TTS_QPM), elapsed |-> e2,
        slept |-> IF full THEN 1 ELSE 0, capped |-> full]

\* wait_if_needed whose first wait sleeps half of what is missing to min_delay
WaitIfNeededHalfDelay(rt, o1, o2) ==
    LET early == Len(rt) > 0 /\ rt[Len(rt)] < min_delay
        e1 == IF early THEN ((min_delay - rt[Len(rt)]) \div 2) + o1 ELSE 0
        rt1 == Elapse(rt, e1)
        full == Len(rt1) >= TTS_QPM /\ rt1[1] < WINDOW
        e2 == IF full THEN (WINDOW - rt1[1]) + o2 ELSE 0
        rt2 == Elapse(rt1, e2)
    IN [times |-> DequeAppend(rt2, 0, TTS_QPM), elapsed |-> e1 + e2,
        slept |-> (IF early THEN 1 ELSE 0) + (IF full THEN 1 ELSE 0), capped |-> full]

wait_if_needed(rt, o1, o2) ==
    LET early == Len(rt) > 0 /\ rt[Len(rt)] < min_delay
        e1 == IF early THEN (min_delay - rt[Len(rt)]) + o1 ELSE 0
        rt1 == Elapse(rt, e1)
        full == Len(rt1) >= TTS_QPM /\ rt1[1] < WINDOW
        e2 == IF full THEN (WINDOW - rt1[1]) + o2 ELSE 0
        rt2 == Elapse(rt1, e2)
    IN [times |-> DequeAppend(rt2, 0, TTS_QPM), elapsed |-> e1 + e2,
        slept |-> (IF early THEN 1 ELSE 0) + (IF full THEN 1 ELSE 0), capped |-> full]

\* ------------------------------------------------------------------------
\* generate_audio.py: merge_audio_parts
\* ------------------------------------------------------------------------
RECURSIVE ConcatParts(_, _, _, _)
ConcatParts(dir, c, i, n) ==
    IF i > n THEN <<>> ELSE dir[<<c, i>>].data \o ConcatParts(dir, c, i + 1, n)

\* merge_audio_parts writing the parts in descending order
RECURSIVE ConcatPartsDescending(_, _, _)
ConcatPartsDescending(dir, c, i) ==
    IF i < 1 THEN <<>> ELSE dir[<<c, i>>].data \o ConcatPartsDescending(dir, c, i - 1)
merge_audio_parts_descending(dir, c, num_parts) ==
    IF ~(\A i \in 1..num_parts : dir[<<c, i>>].exists)
    THEN [dir |-> dir, ok |-> FALSE]
    ELSE [dir |-> [dir EXCEPT ![<<c, 0>>] = File(ConcatPartsDescending(dir, c, num_parts))],
          ok |-> TRUE]

\* merge_audio_parts opening the full file before it looks for the parts
merge_audio_parts_opens_first(dir, c, num_parts) ==
    IF ~(\A i \in 1..num_parts : dir[<<c, i>>].exists)
    THEN [dir |-> [dir EXCEPT ![<<c, 0>>] = File(<<>>)], ok |-> FALSE]
    ELSE [dir |-> [dir EXCEPT ![<<c, 0>>] = File(ConcatParts(dir, c, 1, num_parts))],
          ok |-> TRUE]

\* the directory afterwards and the value returned
merge_audio_parts(dir, c, num_parts) ==
    IF ~(\A i \in 1..num_parts : dir[<<c, i>>].exists)
    THEN [dir |-> dir, ok |-> FALSE]
    ELSE [dir |-> [dir EXCEPT ![<<c, 0>>] = File(ConcatParts(dir, c, 1, num_parts))],
          ok |-> TRUE]

NoMerge == [called |-> FALSE, ch |-> 0, count |-> 0, before |-> EmptyDir,
            after |-> EmptyDir, ok |-> FALSE]
Merged(dir, c, n) ==
    [called |-> TRUE, ch |-> c, count |-> n, before |-> dir,
     after |-> merge_audio_parts(dir, c, n).dir, ok |-> merge_audio_parts(dir, c, n).ok]

\* ------------------------------------------------------------------------
\* The four scripts
\* ------------------------------------------------------------------------
\* what a remote call that does not raise can give back: the audio stream in full,
\* or message.content.strip(), which is empty for a blank answer
Responses(c, i) ==
    CASE stage = "speech" -> {True}
      [] stage = "summarization" -> {Summary(c), EmptyStr}
      [] OTHER -> {Out(c, i), EmptyStr}

\* a text as the sequence of its pieces; an empty string adds nothing to it
Pieces(outs) == SelectSeq(outs, LAMBDA o : o # EmptyStr)
\* "\n\n".join(outs)
JoinOutputs(outs) == Pieces(Join([k \in 1..Len(outs) |-> <<outs[k]>>], <<BlankLine>>))
\* str.strip() of such a text: the outputs and chunks are trimmed and non-empty,
\* the separators are whitespace
RECURSIVE LStripPieces(_)
LStripPieces(t) == IF t # <<>> /\ Head(t) = BlankLine THEN LStripPieces(Tail(t)) ELSE t
RECURSIVE RStripPieces(_)
RStripPieces(t) ==
    IF t # <<>> /\ t[Len(t)] = BlankLine THEN RStripPieces(SubSeq(t, 1, Len(t) - 1)) ELSE t
StripPieces(t) == RStripPieces(LStripPieces(t))

\* translate_chapter: "\n\n".join(translations) taken in reverse
AssembleReversed(outs) ==
    LET rev == [k \in 1..Len(outs) |-> outs[Len(outs) + 1 - k]] IN
    IF stage = "cleanup" THEN StripPieces(JoinOutputs(rev)) ELSE JoinOutputs(rev)

\* translate_chapter: "\n\n".join(translations);
\* clean_and_format_chapter: "\n\n".join(outputs).strip()
Assemble(outs) ==
    IF stage = "cleanup" THEN StripPieces(JoinOutputs(outs)) ELSE JoinOutputs(outs)

\* f"{title}\n\n{translation}"
WithTitle(c, body) == <<Title(c), BlankLine>> \o body

\* output_path always numbered, whatever the number of chunks
output_path_numbered(c, i) == <<c, i>>

\* generate_audio_for_chapter: output_path of chunk i of chapter c
output_path(c, i) == IF nchunks[c] = 1 THEN <<c, 0>> ELSE <<c, i>>

\* what the retry loop returns from its except branch on the last attempt
\* (translate_chunk, _preprocess_chunk) 
ReturnsInExcept == stage \in {"translation", "cleanup"}
ExceptReturn == IF stage = "translation" THEN FailMark(idx) ELSE Chunk(ch, idx)
\* what the function returns after its for loop
AfterLoop ==
    CASE stage = "translation" -> FailMark(idx)
      [] stage = "cleanup" -> None
      [] stage = "summarization" -> EmptyStr
      [] OTHER -> False

\* the except branch: `if attempt < MAX_RETRIES - 1` with the test off by one
ShouldBackoffOffByOne(a) == a < max_retries

\* the except branch: `if attempt < MAX_RETRIES - 1`, sleep before the next attempt
ShouldBackoff(a) == a < max_retries - 1

InitPipeline ==
    /\ run = 0
    /\ pc = "start"
    /\ ch = 1
    /\ idx = 1
    /\ attempt = 0
    /\ acc = <<>>
    /\ success_count = 0
    /\ success = 0
    /\ request_times = <<>>
    /\ ret = None
    /\ admitted = <<>>
    /\ loopCalls = 0
    /\ failures = 0
    /\ sleeps = <<>>
    /\ limiterSleeps = 0
    /\ segs = 0
    /\ sent = {}
    /\ snap = EmptyDir
    /\ exhausted = {}
    /\ reported = [c \in Chapters |-> "none"]
    /\ lastMerge = NoMerge

NoCursor == [i |-> 0, start |-> 0, running |-> FALSE]
SegIdle == text = <<>> /\ seg = "none" /\ chunks = <<>> /\ cursor = NoCursor

Init ==
    /\ SegIdle
    /\ stage \in Stages
    /\ clock = "exact"
    /\ maxRuns = MaxRuns
    /\ max_retries = MAX_RETRIES
    /\ nchunks \in [Chapters -> 0..MaxChunks]
    /\ files = EmptyDir
    /\ InitPipeline

loopVars == <<attempt, ret, loopCalls, failures, sleeps, limiterSleeps>>
limiterVars == <<request_times, admitted>>
runVars == <<segs, sent, snap, exhausted, reported>>
configVars == <<stage, clock, maxRuns, max_retries, nchunks>>

\* the script is started: process_chapters / translate_chapters / summarize_chapters /
\* generate_audio up to its chapter loop (generate_audio creates its RateLimiter)
StartRun ==
    /\ pc \in {"start", "crashed"}
    /\ run < maxRuns
    /\ run' = run + 1
    /\ pc' = "unit"
    /\ ch' = 1
    /\ success' = 0
    /\ request_times' = <<>>
    /\ admitted' = <<>>
    /\ segs' = 0
    /\ sent' = {}
    /\ snap' = files
    /\ exhausted' = {}
    /\ reported' = [c \in Chapters |-> "none"]
    /\ UNCHANGED <<segVars, configVars, idx, files, acc, success_count, loopVars, lastMerge>>

\* the chapter loop is over
FinishRun ==
    /\ pc = "unit"
    /\ ch > NumChapters
    /\ pc' = "start"
    /\ UNCHANGED <<segVars, configVars, run, ch, idx, files, acc, success_count, success,
                   loopVars, limiterVars, runVars, lastMerge>>

\* the chapter's final artifact exists: continue (no such test in process_chapters)
SkipUnit ==
    /\ pc = "unit"
    /\ ch <= NumChapters
    /\ stage # "cleanup"
    /\ files[<<ch, 0>>].exists
    /\ ch' = ch + 1
    /\ success' = IF stage = "speech" THEN success + 1 ELSE success
    /\ reported' = [reported EXCEPT ![ch] = "skipped"]
    /\ UNCHANGED <<segVars, configVars, run, pc, idx, files, acc, success_count,
                   loopVars, limiterVars, segs, sent, snap, exhausted, lastMerge>>

EnterLoop ==
    /\ attempt' = 0
    /\ loopCalls' = 0
    /\ failures' = 0
    /\ sleeps' = <<>>
    /\ limiterSleeps' = 0
    /\ UNCHANGED ret

\* the chapter is read and segmented, the chunk loop starts; summarize_chapters
\* calls generate_summary on the chapter's first 3000 characters instead
BeginUnit ==
    /\ pc = "unit"
    /\ ch <= NumChapters
    /\ stage = "cleanup" \/ ~files[<<ch, 0>>].exists
    /\ idx' = 1
    /\ acc' = <<>>
    /\ success_count' = 0
    /\ IF stage = "summarization"
       THEN /\ pc' = "attempt"
            /\ EnterLoop
            /\ UNCHANGED segs
       ELSE /\ pc' = "chunk"
            /\ segs' = segs + 1
            /\ UNCHANGED loopVars
    /\ UNCHANGED <<segVars, configVars, run, ch, files, success, limiterVars,
                   sent, snap, exhausted, reported, lastMerge>>

\* SkipChunk without the test of output_path: the chunk is generated again
SkipChunkRegenerates ==
    /\ pc = "chunk"
    /\ stage = "speech"
    /\ idx <= nchunks[ch]
    /\ files[output_path(ch, idx)].exists
    /\ success_count' = success_count + 1
    /\ idx' = idx + 1
    /\ sent' = sent \cup {<<ch, idx>>}
    /\ files' = [files EXCEPT ![output_path(ch, idx)] = File(Audio(ch, idx))]
    /\ UNCHANGED <<segVars, configVars, run, pc, ch, attempt, acc, success,
                   loopVars, limiterVars, segs, snap, exhausted, reported, lastMerge>>

\* speech: the chunk's output_path exists, it counts as done
SkipChunk ==
    /\ pc = "chunk"
    /\ stage = "speech"
    /\ idx <= nchunks[ch]
    /\ files[output_path(ch, idx)].exists
    /\ success_count' = success_count + 1
    /\ idx' = idx + 1
    /\ UNCHANGED <<segVars, configVars, run, pc, ch, attempt, files, acc, success,
                   loopVars, limiterVars, runVars, lastMerge>>

\* the retry function is called for the chunk
BeginChunk ==
    /\ pc = "chunk"
    /\ idx <= nchunks[ch]
    /\ stage = "speech" => ~files[output_path(ch, idx)].exists
    /\ pc' = "attempt"
    /\ EnterLoop
    /\ UNCHANGED <<segVars, configVars, run, ch, idx, files, acc, success_count, success,
                   limiterVars, runVars, lastMerge>>

\* one pass through the top of the for loop: the rate limiter admits the attempt
\* (speech) and the remote call is issued
Attempt ==
    /\ pc = "attempt"
    /\ attempt < max_retries
    /\ pc' = "call"
    /\ loopCalls' = loopCalls + 1
    /\ sent' = sent \cup {<<ch, idx>>}
    /\ IF stage = "speech"
       THEN \E o1 \in Oversleep, o2 \in Oversleep :
               LET w == wait_if_needed(request_times, o1, o2) IN
               /\ request_times' = w.times
               /\ limiterSleeps' = limiterSleeps + w.slept
               /\ admitted' = DequeAppend(Elapse(admitted, w.elapsed), 0, TTS_QPM + 1)
       ELSE UNCHANGED <<request_times, admitted, limiterSleeps>>
    /\ UNCHANGED <<segVars, configVars, run, ch, idx, attempt, files, acc, success_count,
                   success, ret, failures, sleeps, segs, snap, exhausted, reported,
                   lastMerge>>

\* the remote call returns; speech: the audio is streamed to output_path in full
\* and the function returns True; the others return the stripped answer
CallSucceeds ==
    /\ pc = "call"
    /\ pc' = "ret"
    /\ ret' \in Responses(ch, idx)
    /\ files' = IF stage = "speech"
                THEN [files EXCEPT ![output_path(ch, idx)] = File(Audio(ch, idx))]
                ELSE files
    /\ UNCHANGED <<segVars, configVars, run, ch, idx, attempt, acc, success_count, success,
                   loopCalls, failures, sleeps, limiterSleeps, limiterVars, runVars,
                   lastMerge>>

\* the remote call raises.  Speech: the exception comes either before stream_to_file
\* has opened output_path, or while it streams, and then the file holds what was
\* written so far.  The except branch sleeps 2 ** attempt unless this was the last
\* attempt, where translate_chunk and _preprocess_chunk return.
CallFails ==
    /\ pc = "call"
    /\ failures' = failures + 1
    /\ \/ UNCHANGED files
       \/ /\ stage = "speech"
          /\ files' = [files EXCEPT ![output_path(ch, idx)] = File(Truncated(ch, idx))]
    /\ IF ShouldBackoff(attempt)
       THEN /\ sleeps' = Append(sleeps, Pow2(attempt))
            /\ \E o \in Oversleep :
                  /\ request_times' = Elapse(request_times, Pow2(attempt) + o)
                  /\ admitted' = Elapse(admitted, Pow2(attempt) + o)
            /\ attempt' = attempt + 1
            /\ pc' = "attempt"
            /\ UNCHANGED <<ret, exhausted>>
       ELSE /\ exhausted' = exhausted \cup {<<ch, idx>>}
            /\ UNCHANGED <<sleeps, limiterVars>>
            /\ IF ReturnsInExcept
               THEN /\ ret' = ExceptReturn
                    /\ pc' = "ret"
                    /\ UNCHANGED attempt
               ELSE /\ attempt' = attempt + 1
                    /\ pc' = "attempt"
                    /\ UNCHANGED ret
    /\ UNCHANGED <<segVars, configVars, run, ch, idx, acc, success_count, success,
                   loopCalls, limiterSleeps, segs, sent, snap, reported, lastMerge>>

\* LoopEnds raising instead of returning: the script ends
LoopEndsAborts ==
    /\ pc = "attempt"
    /\ attempt >= max_retries
    /\ pc' = "crashed"
    /\ UNCHANGED <<segVars, configVars, run, ch, idx, attempt, files, acc, success_count,
                   success, ret, loopCalls, failures, sleeps, limiterSleeps, limiterVars,
                   runVars, lastMerge>>

\* the for loop has run out of attempts: the return after the loop
LoopEnds ==
    /\ pc = "attempt"
    /\ attempt >= max_retries
    /\ ret' = AfterLoop
    /\ pc' = "ret"
    /\ UNCHANGED <<segVars, configVars, run, ch, idx, attempt, files, acc, success_count,
                   success, loopCalls, failures, sleeps, limiterSleeps, limiterVars,
                   runVars, lastMerge>>

\* the caller takes the retry function's result.
\* translate_chapter / clean_and_format_chapter: append it, sleep(1), next chunk;
\* summarize_chapters: write the summary if it is non-empty, sleep(1), next chapter;
\* generate_audio_for_chapter: count a success, next chunk.
\* clean_and_format_chapter prints len(cleaned): with None for cleaned that is a
\* TypeError nobody catches, and the script ends there.
Return ==
    /\ pc = "ret"
    /\ CASE stage = "summarization" ->
              /\ files' = IF ret # EmptyStr
                          THEN [files EXCEPT ![<<ch, 0>>] = File(<<ret>>)]
                          ELSE files
              /\ reported' = [reported EXCEPT ![ch] = IF ret # EmptyStr THEN "done"
                                                       ELSE "failed"]
              /\ ch' = ch + 1
              /\ pc' = "unit"
              /\ UNCHANGED <<idx, acc, success_count>>
         [] stage = "speech" ->
              /\ success_count' = IF ret = True THEN success_count + 1 ELSE success_count
              /\ idx' = idx + 1
              /\ pc' = "chunk"
              /\ UNCHANGED <<files, reported, ch, acc>>
         [] OTHER ->
              /\ acc' = Append(acc, ret)
              /\ IF ret = None
                 THEN pc' = "crashed" /\ UNCHANGED idx
                 ELSE pc' = "chunk" /\ idx' = idx + 1
              /\ UNCHANGED <<files, reported, ch, success_count>>
    /\ UNCHANGED <<segVars, configVars, run, success, loopVars, limiterVars,
                   segs, sent, snap, exhausted, lastMerge>>

\* the chunk loop is over.
\* translate_chapters / process_chapters: join the results and write the chapter file;
\* generate_audio_for_chapter: merge the parts if all succeeded and there are several,
\* return success_count == len(chunks), which generate_audio counts.
EndUnit ==
    /\ pc = "chunk"
    /\ idx > nchunks[ch]
    /\ IF stage = "speech"
       THEN LET all == success_count = nchunks[ch]
                merging == all /\ nchunks[ch] > 1
            IN /\ files' = IF merging
                           THEN merge_audio_parts(files, ch, nchunks[ch]).dir ELSE files
               /\ lastMerge' = IF merging THEN Merged(files, ch, nchunks[ch])
                               ELSE lastMerge
               /\ success' = IF all THEN success + 1 ELSE success
               /\ reported' = [reported EXCEPT ![ch] = IF all THEN "done" ELSE "failed"]
       ELSE /\ files' = [files EXCEPT ![<<ch, 0>>] = File(WithTitle(ch, Assemble(acc)))]
            /\ reported' = [reported EXCEPT ![ch] = "done"]
            /\ UNCHANGED <<success, lastMerge>>
    /\ ch' = ch + 1
    /\ pc' = "unit"
    /\ UNCHANGED <<segVars, configVars, run, idx, acc, success_count, loopVars,
                   limiterVars, segs, sent, snap, exhausted>>

Next ==
    \/ StartRun
    \/ FinishRun
    \/ SkipUnit
    \/ BeginUnit
    \/ SkipChunk
    \/ BeginChunk
    \/ Attempt
    \/ CallSucceeds
    \/ CallFails
    \/ LoopEnds
    \/ Return
    \/ EndUnit

Spec == Init /\ [][Next]_vars

\* ------------------------------------------------------------------------
\* The speech stage under a real clock: the service takes time to answer and
\* sleeps may oversleep.  One run over a chapter of two chunks and chapters of one,
\* in a directory where an earlier run may have left the first part of chapter 1
\* and the audio of chapter 2.
\* ------------------------------------------------------------------------
InitLimiter ==
    /\ SegIdle
    /\ stage = "speech"
    /\ clock = "real"
    /\ maxRuns = 1
    /\ max_retries = MAX_RETRIES
    /\ nchunks = [c \in Chapters |-> IF c = 1 THEN 2 ELSE 1]
    /\ \E left \in SUBSET {<<1, 1>>, <<2, 0>>} :
          files = [p \in Paths |-> IF p \in left THEN File(Audio(p[1], 1)) ELSE NoFile]
    /\ InitPipeline

\* a second passes while the remote call is in flight
Tick ==
    /\ pc = "call"
    /\ stage = "speech"
    /\ request_times' = Elapse(request_times, 1)
    /\ admitted' = Elapse(admitted, 1)
    /\ UNCHANGED <<segVars, configVars, run, pc, ch, idx, files, acc, success_count,
                   success, loopVars, runVars, lastMerge>>

NextLimiter == Next \/ Tick

SpecLimiter == InitLimiter /\ [][NextLimiter]_vars

\* ------------------------------------------------------------------------
\* The pipeline with merge_audio_parts also called directly, between runs, for any
\* chapter and any part count
\* ------------------------------------------------------------------------
MergeCall ==
    /\ pc = "start"
    /\ stage = "speech"
    /\ \E c \in Chapters, n \in 1..MaxChunks :
          /\ files' = merge_audio_parts(files, c, n).dir
          /\ lastMerge' = Merged(files, c, n)
    /\ UNCHANGED <<segVars, configVars, run, pc, ch, idx, acc, success_count, success,
                   loopVars, limiterVars, runVars>>

NextMerge == Next \/ MergeCall

SpecMerge == Init /\ [][NextMerge]_vars

\* ------------------------------------------------------------------------
\* The pipeline under any configured MAX_RETRIES and with an output directory that
\* may refuse a write
\* ------------------------------------------------------------------------
InitFaults ==
    /\ SegIdle
    /\ stage \in Stages
    /\ clock = "exact"
    /\ maxRuns = MaxRuns
    /\ max_retries \in 0..MAX_RETRIES
    /\ nchunks \in [Chapters -> 0..MaxChunks]
    /\ files = EmptyDir
    /\ InitPipeline

\* the script is about to write the chapter's artifact
AboutToWrite ==
    CASE stage = "summarization" -> pc = "ret" /\ ret # EmptyStr
      [] stage = "speech" -> /\ pc = "chunk" /\ idx > nchunks[ch]
                             /\ success_count = nchunks[ch] /\ nchunks[ch] > 1
      [] OTHER -> pc = "chunk" /\ idx > nchunks[ch]

\* output_file.write_text(...) / open(full_file, 'wb') raises OSError: no function on
\* the way up catches it, the script ends with the traceback
WriteFails ==
    /\ AboutToWrite
    /\ pc' = "crashed"
    /\ reported' = [reported EXCEPT ![ch] = "unwritable"]
    /\ UNCHANGED <<segVars, configVars, run, ch, idx, files, acc, success_count, success,
                   loopVars, limiterVars, segs, sent, snap, exhausted, lastMerge>>

NextFaults == Next \/ WriteFails

SpecFaults == InitFaults /\ [][NextFaults]_vars

\* ------------------------------------------------------------------------
\* The segmenters applied to every text up to MaxLen characters
\* ------------------------------------------------------------------------
Texts == UNION {[1..n -> Alphabet] : n \in 0..MaxLen}

PipelineIdle ==
    /\ stage = "speech"
    /\ clock = "exact"
    /\ maxRuns = 0
    /\ max_retries = MAX_RETRIES
    /\ nchunks = [c \in Chapters |-> 0]
    /\ files = EmptyDir
    /\ InitPipeline

InitSeg ==
    /\ text \in Texts
    /\ seg = "none"
    /\ chunks = <<>>
    /\ cursor = NoCursor
    /\ PipelineIdle

RunSplitIntoChunks ==
    /\ seg = "none"
    /\ seg' = "translate"
    /\ chunks' = split_into_chunks(text)
    /\ UNCHANGED <<text, cursor, pipeVars>>

RunSplitPreprocessChunks ==
    /\ seg = "none"
    /\ seg' = "preprocess"
    /\ chunks' = _split_preprocess_chunks(text, PREPROCESS_CHUNK_SIZE)
    /\ UNCHANGED <<text, cursor, pipeVars>>

RunSplitByParagraphs ==
    /\ seg = "none"
    /\ seg' = "audio"
    /\ chunks' = split_by_paragraphs(text)
    /\ UNCHANGED <<text, cursor, pipeVars>>

NextSeg == RunSplitIntoChunks \/ RunSplitPreprocessChunks \/ RunSplitByParagraphs

SpecSeg == InitSeg /\ [][NextSeg]_vars

\* ------------------------------------------------------------------------
\* _split_sentences on its own, over texts that hold a Latin ender, a CJK ender
\* (the ideographic full stop) and a closing quote
\* ------------------------------------------------------------------------
\* longest input text of the sentence specification
MaxSentLen == 5
SentAlphabet == {"a", ".", "U+3002", "\"", SP}
SentTexts == UNION {[1..n -> SentAlphabet] : n \in 0..MaxSentLen}

InitSent ==
    /\ text \in SentTexts
    /\ seg = "none"
    /\ chunks = <<>>
    /\ cursor = NoCursor
    /\ PipelineIdle

RunSplitSentences ==
    /\ seg = "none"
    /\ seg' = "sentences"
    /\ chunks' = _split_sentences(text)
    /\ UNCHANGED <<text, cursor, pipeVars>>

NextSent == RunSplitSentences

SpecSent == InitSent /\ [][NextSent]_vars

\* ------------------------------------------------------------------------
\* Claims about the segmenters (checked under SpecSeg)
\* ------------------------------------------------------------------------
NonWs(s) == SelectSeq(s, LAMBDA c : ~IsSpace(c))
Concat(cs) == Join(cs, <<>>)
HasBlankLine(t) == RFind(t, NLNL) >= 0
AllWithin(cs, limit) == \A k \in 1..Len(cs) : Len(cs[k]) <= limit

\* C4: every chunk returned by split_into_chunks has length <= CHUNK_SIZE,
\* also for a paragraph holding a sentence longer than CHUNK_SIZE after a
\* shorter one.
C4_TranslationSizeBound == seg = "translate" => AllWithin(chunks, CHUNK_SIZE)

\* C5: every chunk returned by _split_preprocess_chunks has length <= max_chars,
\* also when a paragraph longer than max_chars arrives while the packing
\* buffer is non-empty.
C5_CleanupSizeBound == seg = "preprocess" => AllWithin(chunks, PREPROCESS_CHUNK_SIZE)

\* C6: every chunk returned by split_by_paragraphs has length <= MAX_AUDIO_CHUNK,
\* also for a long paragraph with no sentence delimiter or with one sentence
\* longer than the limit.
C6_SpeechSizeBound == seg = "audio" => AllWithin(chunks, MAX_AUDIO_CHUNK)

\* C7: for each segmenter the non-whitespace characters of the returned chunks,
\* concatenated in order, are exactly the non-whitespace characters of the
\* input, in the same order.
C7_ContentPreserved == seg # "none" => NonWs(Concat(chunks)) = NonWs(text)

\* C7 witness: the speech segmenter split one over-long paragraph (no blank
\* line in the input) at its sentence delimiters into several chunks.
C7_Witness ==
    /\ seg = "audio"
    /\ ~HasBlankLine(text)
    /\ Contains(text, ".")
    /\ Len(chunks) >= 2
    /\ Len(NonWs(text)) > MAX_AUDIO_CHUNK

\* ------------------------------------------------------------------------
\* Claims about the rate limiter (checked under SpecLimiter)
\* ------------------------------------------------------------------------
\* how many of the recorded timestamps lie in the last 60 seconds (t - 60, t]
InWindow == Cardinality({k \in 1..Len(admitted) : admitted[k] < WINDOW})
\* the state right after the (TTS_QPM + 1)-th timestamp was recorded
JustAdmittedOverQuota == Len(admitted) = TTS_QPM + 1 /\ admitted[Len(admitted)] = 0

\* C1 as stated: at every time at most TTS_QPM recorded timestamps lie in the
\* last 60 seconds, and the (Q+1)-th timestamp is recorded only once the oldest
\* of the Q held ones is MORE than 60 seconds old.
C1_WindowBoundStrict ==
    /\ InWindow <= TTS_QPM
    /\ JustAdmittedOverQuota => admitted[1] > WINDOW

\* C1 amended: at every time at most TTS_QPM recorded timestamps lie in the
\* half-open window (t - 60, t], and the (Q+1)-th timestamp is recorded only once
\* the oldest of the Q held ones is AT LEAST 60 seconds old.
C1_WindowBound ==
    /\ InWindow <= TTS_QPM
    /\ JustAdmittedOverQuota => admitted[1] >= WINDOW

\* C1 witness: the (Q+1)-th timestamp has just been recorded exactly 60 seconds
\* after the oldest, with Q timestamps in the window.
C1_Witness ==
    /\ JustAdmittedOverQuota
    /\ admitted[1] = WINDOW
    /\ InWindow = TTS_QPM

\* C2: any two consecutive timestamps recorded by the run's one RateLimiter are at
\* least 60 / TTS_QPM seconds apart, whatever chunk, attempt or chapter they are for.
C2_Spacing ==
    \A k \in 1..(Len(admitted) - 1) :
        admitted[k] = Saturated \/ admitted[k] - admitted[k + 1] >= min_delay

\* C2 witness: the first attempt of chapter 2's first chunk has just been admitted,
\* exactly min_delay after the last admission of chapter 1.
C2_Witness ==
    /\ pc = "call" /\ ch = 2 /\ idx = 1 /\ attempt = 0
    /\ Len(admitted) >= 2
    /\ admitted[Len(admitted)] = 0
    /\ admitted[Len(admitted) - 1] = min_delay

\* ------------------------------------------------------------------------
\* Claims about the retry loops and the pipeline (checked under Spec)
\* ------------------------------------------------------------------------
\* the retry function has returned and every call it made raised
ReturnedAllFailed == pc = "ret" /\ loopCalls > 0 /\ failures = loopCalls
\* the outcome each retry loop gives when it runs out of attempts
ExhaustedOutcome ==
    CASE stage = "translation" -> FailMark(idx)
      [] stage = "cleanup" -> Chunk(ch, idx)
      [] stage = "summarization" -> EmptyStr
      [] OTHER -> False
BackoffSchedule == [k \in 1..(MAX_RETRIES - 1) |-> Pow2(k - 1)]

\* C3 as stated: a retry loop whose call always fails makes exactly MAX_RETRIES
\* calls and sleeps exactly MAX_RETRIES - 1 times, for 1, 2, 4, ... seconds, never
\* after the final attempt, then returns its exhausted outcome.
C3_RetryCeilingAllSleeps ==
    ReturnedAllFailed =>
        /\ loopCalls = MAX_RETRIES
        /\ sleeps = BackoffSchedule
        /\ limiterSleeps = 0
        /\ ret = ExhaustedOutcome

\* C3 amended: a retry loop whose call always fails makes exactly MAX_RETRIES calls
\* and exactly MAX_RETRIES - 1 backoff sleeps, for 1, 2, 4, ... seconds, never after
\* the final attempt, then returns its exhausted outcome (generate_audio_chunk may
\* sleep in wait_if_needed as well, before any attempt).
C3_RetryCeiling ==
    ReturnedAllFailed =>
        /\ loopCalls = MAX_RETRIES
        /\ sleeps = BackoffSchedule
        /\ ret = ExhaustedOutcome

\* C3 witness: generate_audio_chunk has returned False after MAX_RETRIES failed
\* calls, having also slept in the rate limiter.
C3_Witness ==
    /\ ReturnedAllFailed
    /\ stage = "speech"
    /\ loopCalls = MAX_RETRIES
    /\ limiterSleeps > 0

AllFinalPresent(dir) == \A c \in Chapters : dir[<<c, 0>>].exists

\* C8: in every stage, a second run that finds every final artifact of the first
\* run present makes no remote call, segments nothing, and leaves every final
\* artifact as it was.
C8_ResumeIdempotent ==
    (run = 2 /\ AllFinalPresent(snap)) =>
        /\ sent = {}
        /\ segs = 0
        /\ \A c \in Chapters : files[<<c, 0>>] = snap[<<c, 0>>]

\* chapter c of this run: the chunks that ran out of attempts, the chunks sent
ExhaustedOf(c) == {i \in 1..MaxChunks : <<c, i>> \in exhausted}
SentOf(c) == {i \in 1..MaxChunks : <<c, i>> \in sent}
OtherParts(c, i) == (1..nchunks[c]) \ {i}

\* C10: speech, a chapter of n >= 2 chunks.  (a) When exactly chunk i runs out of
\* attempts in the first run, afterwards every other part exists, part i does not,
\* there is no merged artifact and the chapter is reported as failed.  (b) A later
\* run that finds the directory so and whose call for chunk i succeeds sends only
\* chunk i, merges the parts in index order and leaves the final artifact.
C10_FailureAndResume ==
    \A c \in Chapters, i \in 1..MaxChunks :
        (stage = "speech" /\ nchunks[c] >= 2 /\ i <= nchunks[c]
                          /\ reported[c] \notin {"none", "skipped"}) =>
            /\ (run = 1 /\ ExhaustedOf(c) = {i}) =>
                   /\ \A j \in OtherParts(c, i) : files[<<c, j>>].exists
                   /\ ~files[<<c, i>>].exists
                   /\ ~files[<<c, 0>>].exists
                   /\ reported[c] = "failed"
            /\ (/\ run = 2
                /\ \A j \in OtherParts(c, i) : snap[<<c, j>>].exists
                /\ ~snap[<<c, i>>].exists
                /\ ~snap[<<c, 0>>].exists
                /\ ExhaustedOf(c) = {}) =>
                   /\ SentOf(c) = {i}
                   /\ files[<<c, 0>>] = File(ConcatParts(files, c, 1, nchunks[c]))
                   /\ files[<<c, i>>] = File(Audio(c, i))
                   /\ reported[c] = "done"

\* ------------------------------------------------------------------------
\* Claims about merge_audio_parts (checked under SpecMerge)
\* ------------------------------------------------------------------------
\* where part i starts in the concatenation of parts 1..n of chapter c
RECURSIVE Offset(_, _, _)
Offset(dir, c, i) == IF i <= 1 THEN 0 ELSE Offset(dir, c, i - 1) + Len(dir[<<c, i - 1>>].data)

\* C9: merge_audio_parts(dir, c, count) returns True exactly when every part
\* 1..count exists at the call, and then the full artifact holds the bytes of
\* part 1, then part 2, ..., then part count.
C9_MergeCorrect ==
    lastMerge.called =>
        LET c == lastMerge.ch
            n == lastMerge.count
            before == lastMerge.before
            full == lastMerge.after[<<c, 0>>]
        IN /\ lastMerge.ok <=> \A i \in 1..n : before[<<c, i>>].exists
           /\ lastMerge.ok =>
                 /\ full.exists
                 /\ Len(full.data) = Offset(before, c, n + 1)
                 /\ \A i \in 1..n :
                       SubSeq(full.data, Offset(before, c, i) + 1, Offset(before, c, i + 1))
                           = before[<<c, i>>].data

\* C9 witness: a merge of at least two parts has succeeded.
C9_Witness ==
    /\ lastMerge.called
    /\ lastMerge.ok
    /\ lastMerge.count >= 2
    /\ Len(lastMerge.after[<<lastMerge.ch, 0>>].data) >= 2 * lastMerge.count

\* ------------------------------------------------------------------------
\* Claims about the chunk loops of the text stages (checked under Spec)
\* ------------------------------------------------------------------------
TextStages == {"cleanup", "translation"}
\* the chunk loop of chapter ch has ended
ChunkLoopDone == pc = "chunk" /\ idx > nchunks[ch]

\* C11: in the cleanup and translation stages, when the chunk loop of a chapter ends
\* there is one result per chunk, the result of a chunk whose call failed
\* MAX_RETRIES times is that chunk's input text unchanged, and the result of every
\* other chunk is what the service answered for it.
C11_ExhaustionFallback ==
    (stage \in TextStages /\ ChunkLoopDone) =>
        /\ Len(acc) = nchunks[ch]
        /\ \A i \in 1..nchunks[ch] :
              IF <<ch, i>> \in exhausted THEN acc[i] = Chunk(ch, i)
              ELSE acc[i] \in Responses(ch, i)

\* the chapter before ch has just been written by a text stage: acc still holds its
\* per-chunk results
JustAssembled == stage \in TextStages /\ pc = "unit" /\ ch > 1 /\ reported[ch - 1] = "done"
Body(c) == SubSeq(files[<<c, 0>>].data, 3, Len(files[<<c, 0>>].data))
\* whenever a call is issued, no chunk of the chapter with a higher index has been
\* sent before, and (text stages) every lower chunk already has its one result
AscendingSubmission ==
    pc = "call" =>
        /\ \A p \in sent : p[1] = ch => p[2] <= idx
        /\ stage \in TextStages => Len(acc) = idx - 1

C13_AdmissionBeforeAttempt ==
    pc = "call" => (admitted # <<>> /\ admitted[Len(admitted)] = 0)

\* ------------------------------------------------------------------------
\* Claims about the speech stage's chunk loop (checked under Spec)
\* ------------------------------------------------------------------------
\* generate_audio_for_chapter is at a chunk whose part file exists
AtExistingPart ==
    /\ pc = "chunk" /\ stage = "speech" /\ idx <= nchunks[ch]
    /\ files[output_path(ch, idx)].exists
\* the parts the run found were not sent and are as the run found them
PartsKept ==
    stage = "speech" =>
        \A c \in Chapters, i \in 1..MaxChunks :
            (run >= 1 /\ nchunks[c] > 1 /\ i <= nchunks[c] /\ snap[<<c, i>>].exists) =>
                (<<c, i>> \notin sent /\ files[<<c, i>>] = snap[<<c, i>>])

\* C14: in the speech stage, a chunk whose part file exists when the chunk loop
\* reaches it is counted as succeeded in that step, with no remote call, no
\* rate-limiter admission and no change to any file; the parts a run found are
\* never sent and never rewritten by it.
C14_ChunkCheckpoint ==
    /\ []PartsKept
    /\ [][AtExistingPart =>
             /\ success_count' = success_count + 1
             /\ idx' = idx + 1
             /\ pc' = "chunk"
             /\ sent' = sent
             /\ loopCalls' = loopCalls
             /\ request_times' = request_times
             /\ admitted' = admitted
             /\ files' = files]_vars

\* C14 witness: the second run has skipped the existing part 1 of a chapter of two
\* chunks and is at chunk 2, whose part is missing.
C14_Witness ==
    /\ stage = "speech" /\ run = 2 /\ pc = "chunk" /\ idx = 2 /\ nchunks[ch] = 2
    /\ snap[<<ch, 1>>] = File(Audio(ch, 1))
    /\ ~files[<<ch, 2>>].exists
    /\ success_count = 1
    /\ <<ch, 1>> \notin sent

\* ------------------------------------------------------------------------
\* More claims about the segmenters (checked under SpecSeg)
\* ------------------------------------------------------------------------
\* the limit of the segmenter that has run
Limit ==
    CASE seg = "translate" -> CHUNK_SIZE
      [] seg = "preprocess" -> PREPROCESS_CHUNK_SIZE
      [] OTHER -> MAX_AUDIO_CHUNK

\* C15: for each segmenter, a text no longer than the limit comes back as exactly
\* one chunk, equal to the text with leading and trailing whitespace removed.
C15_SingleChunkIdentity ==
    (seg # "none" /\ Len(text) <= Limit) => chunks = <<Strip(text)>>

\* the text is two non-blank paragraphs around one blank line, each within the
\* limit, which together with the separator exceed it
TwoParagraphs ==
    LET paras == Split(text, NLNL) IN
    /\ Len(paras) = 2
    /\ \A k \in 1..2 : Strip(paras[k]) # <<>> /\ Len(paras[k]) <= Limit
    /\ Len(text) > Limit

\* C16: for such a text each segmenter returns exactly two chunks, the first
\* paragraph trimmed and the second paragraph trimmed, with nothing changed inside
\* a paragraph.
C16_BoundaryPreference ==
    (seg # "none" /\ TwoParagraphs) =>
        chunks = <<Strip(Split(text, NLNL)[1]), Strip(Split(text, NLNL)[2])>>

\* the chunk is not empty and neither begins nor ends with whitespace
Trimmed(c) == c # <<>> /\ ~IsSpace(c[1]) /\ ~IsSpace(c[Len(c)])

\* C17: no segmenter returns an empty chunk or a chunk that begins or ends with
\* whitespace, and the empty text gives no chunk.
C17_NoEmptyOrUntrimmed ==
    seg # "none" =>
        /\ \A k \in 1..Len(chunks) : Trimmed(chunks[k])
        /\ text = <<>> => chunks = <<>>

\* ------------------------------------------------------------------------
\* More claims about the retry loops (checked under Spec)
\* ------------------------------------------------------------------------
\* the retry function has returned after a call that did not raise
ReturnedAfterSuccess == pc = "ret" /\ failures < loopCalls

\* C18: when the call first succeeds on attempt k, the retry loop has made exactly
\* k + 1 calls and exactly k backoff sleeps, of 1, 2, ..., 2^(k-1) seconds, it returns
\* what that call gave, and the function is left at once: one admission per call in
\* the speech stage, no attempt, sleep or admission after the success.
C18_SuccessStopsRetry ==
    /\ [](ReturnedAfterSuccess =>
             /\ attempt = failures
             /\ attempt < max_retries
             /\ loopCalls = attempt + 1
             /\ sleeps = [k \in 1..attempt |-> 2^(k - 1)]
             /\ ret \in Responses(ch, idx)
             /\ stage = "speech" => (admitted # <<>> /\ admitted[Len(admitted)] = 0))
    /\ [][ReturnedAfterSuccess =>
             /\ pc' \notin {"attempt", "call"}
             /\ loopCalls' = loopCalls
             /\ sleeps' = sleeps
             /\ limiterSleeps' = limiterSleeps
             /\ admitted' = admitted]_vars

\* C18 witness: the call has succeeded on the last attempt, after MAX_RETRIES - 1
\* failures and as many backoff sleeps.
C18_Witness ==
    /\ ReturnedAfterSuccess
    /\ failures = MAX_RETRIES - 1
    /\ Len(sleeps) = MAX_RETRIES - 1
    /\ stage = "speech"
    /\ ret = True

\* ------------------------------------------------------------------------
\* Claims about failures (checked under SpecFaults)
\* ------------------------------------------------------------------------
\* a bool; a str
IsBool(v) == v \in {True, False}
IsStr(v) == v.kind \in {"out", "chunk", "failmark", "summary", ""}

\* C19: whatever the calls do and whatever MAX_RETRIES is configured, when a retry
\* function returns, its value is a bool in the speech stage and a string in the
\* text stages, never None.
C19_WellFormedOutcome ==
    pc = "ret" => IF stage = "speech" THEN IsBool(ret) ELSE IsStr(ret)

\* C20: when the write of chapter k's artifact fails, the script does not end
\* there: it goes on with the chapters after k.
C20_WriteFailureNotFatal ==
    \A k \in Chapters : reported[k] = "unwritable" => pc # "crashed"

\* ------------------------------------------------------------------------
\* Claims about what an exhausted chunk does to the rest of the run (checked under Spec)
\* ------------------------------------------------------------------------
\* chapter c has been gone through in this run
Processed(c) == reported[c] \in {"done", "failed"}
\* chunk j of chapter c was sent in this run, or stood as a part file already
Handled(c, j) ==
    \/ <<c, j>> \in sent
    \/ stage = "speech" /\ snap[IF nchunks[c] = 1 THEN <<c, 0>> ELSE <<c, j>>].exists
\* the chunks of chapter c that the stage calls the service for
UnitsOfWork(c) == IF stage = "summarization" THEN {1} ELSE 1..nchunks[c]

\* C21: in every stage a chunk that runs out of attempts does not end the script;
\* every chunk of a chapter that was gone through was sent (or stood already), in
\* particular those after an exhausted one; when the run is over every chapter was
\* gone through or skipped; and a chapter none of whose own chunks ran out is
\* reported and written as if no chunk of another chapter had.
C21_ExhaustionBlocksOwnUnitOnly ==
    /\ exhausted # {} => pc # "crashed"
    /\ \A c \in Chapters :
          Processed(c) => \A j \in UnitsOfWork(c) : Handled(c, j)
    /\ (pc = "start" /\ run >= 1) => \A c \in Chapters : reported[c] # "none"
    /\ \A c \in Chapters :
          (Processed(c) /\ ExhaustedOf(c) = {}) =>
              CASE stage = "summarization" ->
                     (reported[c] = "done") = files[<<c, 0>>].exists
                [] stage = "speech" ->
                     /\ reported[c] = "done"
                     /\ nchunks[c] >= 1 => files[<<c, 0>>].exists
                [] OTHER ->
                     /\ reported[c] = "done"
                     /\ \A k \in 1..Len(Body(c)) :
                           Body(c)[k] = BlankLine \/ Body(c)[k] \in Responses(c, Body(c)[k].idx)

\* C21 witness: the first run is over; chunk 1 of chapter 1 ran out of attempts,
\* chunk 2 of chapter 1 was sent after it, and chapter 2 was written.
C21_Witness ==
    /\ pc = "start" /\ run = 1
    /\ nchunks[1] = 2
    /\ ExhaustedOf(1) = {1}
    /\ <<1, 2>> \in sent
    /\ ExhaustedOf(2) = {}
    /\ reported[2] = "done"
    /\ files[<<2, 0>>].exists

\* ------------------------------------------------------------------------
\* Claims about the artifacts of the speech stage (checked under Spec and SpecMerge)
\* ------------------------------------------------------------------------
RECURSIVE AllAudio(_, _, _)
\* the complete audio of chunks i..n of chapter c, one after another
AllAudio(c, i, n) == IF i > n THEN <<>> ELSE Audio(c, i) \o AllAudio(c, i + 1, n)
\* what the file at path p holds when it is complete
CompleteContent(p) ==
    IF p[2] = 0 THEN AllAudio(p[1], 1, nchunks[p[1]]) ELSE Audio(p[1], p[2])

\* C22: in every reachable state of the speech stage, also after a call failed
\* part-way and the script was started again, every part file and every full file
\* that exists holds its complete content (the full file: all parts 1..n in order).
C22_ExistenceImpliesCompleteness ==
    stage = "speech" =>
        \A p \in Paths : files[p].exists => files[p].data = CompleteContent(p)

\* C23: a merge_audio_parts call that finds a part of 1..count missing returns False
\* and leaves the whole directory as it was; a call that succeeds touches no part
\* file, and the same call made again on the directory it left gives the same
\* full file and the same parts.
C23_MergeFailureWritesNothing ==
    lastMerge.called =>
        LET c == lastMerge.ch
            n == lastMerge.count
            before == lastMerge.before
            after == lastMerge.after
        IN /\ (\E i \in 1..n : ~before[<<c, i>>].exists) =>
                 (~lastMerge.ok /\ after = before)
           /\ \A p \in Paths : p # <<c, 0>> => after[p] = before[p]
           /\ lastMerge.ok =>
                 /\ merge_audio_parts(after, c, n).ok
                 /\ merge_audio_parts(after, c, n).dir = after
           /\ (lastMerge.ok /\ before[<<c, 0>>] = File(ConcatParts(before, c, 1, n))) =>
                 after = before

\* C23 witness: a merge of two parts failed for a missing part 2 in a directory
\* that held part 1 and a full file, which a merge of one part had written.
C23_Witness ==
    /\ lastMerge.called
    /\ ~lastMerge.ok
    /\ lastMerge.count = 2
    /\ lastMerge.before[<<lastMerge.ch, 1>>].exists
    /\ ~lastMerge.before[<<lastMerge.ch, 2>>].exists
    /\ lastMerge.before[<<lastMerge.ch, 0>>].exists
    /\ files = lastMerge.before

\* C24: a speech chapter of exactly one chunk has its audio written straight to the
\* chapter's full path, never has a numbered part file, and is never merged.
C24_OneChunkBypassesNumbering ==
    stage = "speech" =>
        /\ \A c \in Chapters : nchunks[c] = 1 =>
              /\ \A i \in 1..MaxChunks : ~files[<<c, i>>].exists
              /\ reported[c] = "done" => files[<<c, 0>>].exists
              /\ files[<<c, 0>>].exists => files[<<c, 0>>].data \in {Audio(c, 1), Truncated(c, 1)}
        /\ lastMerge.called => nchunks[lastMerge.ch] > 1

\* C24 witness: the one chunk of a one-chunk chapter was synthesised and the chapter
\* reported done.
C24_Witness ==
    /\ stage = "speech"
    /\ \E c \in Chapters :
          /\ nchunks[c] = 1
          /\ <<c, 1>> \in sent
          /\ reported[c] = "done"
          /\ files[<<c, 0>>] = File(Audio(c, 1))

\* the paragraphs of the input, as both paragraph loops take them
Paragraphs(t) == Split(t, NLNL)
\* every paragraph is non-empty, trimmed and no longer than the limit
ParagraphsFit(t, limit) ==
    \A k \in 1..Len(Paragraphs(t)) :
        LET p == Paragraphs(t)[k] IN p # <<>> /\ Strip(p) = p /\ Len(p) <= limit
\* the number of paragraphs held by the first j chunks
RECURSIVE ParasBefore(_, _)
ParasBefore(cs, j) ==
    IF j = 0 THEN 0 ELSE ParasBefore(cs, j - 1) + Len(Split(cs[j], NLNL))
\* the chunks hold the paragraphs in order, and wherever a chunk ends the next
\* paragraph would not have fitted into it with the separator
BoundariesOnlyWhenFull(t, cs, limit) ==
    /\ ParasBefore(cs, Len(cs)) = Len(Paragraphs(t))
    /\ \A j \in 1..(Len(cs) - 1) :
          Len(cs[j]) + 2 + Len(Paragraphs(t)[ParasBefore(cs, j) + 1]) > limit

\* C25: when every paragraph of the text is within the limit, split_into_chunks
\* and _split_preprocess_chunks end a chunk between two paragraphs only if the
\* later paragraph with its 2-character separator would not fit into the chunk
\* holding the earlier one, also when that chunk was begun by a paragraph that
\* did not fit into the chunk before it.
C25_GreedyParagraphPacking ==
    /\ (seg = "translate" /\ ParagraphsFit(text, CHUNK_SIZE)) =>
          BoundariesOnlyWhenFull(text, chunks, CHUNK_SIZE)
    /\ (seg = "preprocess" /\ ParagraphsFit(text, PREPROCESS_CHUNK_SIZE)) =>
          BoundariesOnlyWhenFull(text, chunks, PREPROCESS_CHUNK_SIZE)

\* A hard-cut rule: the characters and the two-character patterns a cut looks for,
\* the threshold num/den of the limit, and whether the piece keeps the character
\* found (keep = 1) or ends before it (keep = 0).
SpaceRule == [chars |-> {SP}, pairs |-> {}, num |-> 6, den |-> 10, keep |-> 0]
WhitespaceRule == [SpaceRule EXCEPT !.chars = Whitespace]
BreakRule ==
    [chars |-> {SP}, pairs |-> {<<".", SP>>, <<"!", SP>>, <<"?", SP>>, <<".", NL>>},
     num |-> 1, den |-> 2, keep |-> 1]
WhitespaceBreakRule == [BreakRule EXCEPT !.chars = Whitespace]

\* the last position of the window w where the rule finds a break, or -1
LastBreak(w, rule) ==
    LET I == {k \in 0..(Len(w) - 1) :
                \/ CharAt(w, k) \in rule.chars
                \/ k + 1 < Len(w) /\ Slice(w, k, k + 2) \in rule.pairs}
    IN IF I = {} THEN -1 ELSE SetMax(I)

\* the untrimmed pieces of s from position i on when every non-final cut is made
\* at the last break of the window if it lies beyond the threshold, and exactly
\* limit characters after the window start otherwise
RECURSIVE RulePieces(_, _, _, _)
RulePieces(s, i, limit, rule) ==
    IF i >= Len(s) THEN <<>>
    ELSE LET end0 == Min(i + limit, Len(s))
             pos == LastBreak(Slice(s, i, end0), rule)
             atBreak == end0 < Len(s) /\ rule.den * pos > rule.num * limit
             end == IF atBreak THEN i + pos + rule.keep ELSE end0
         IN <<Slice(s, i, end)>> \o RulePieces(s, end, limit, rule)

StripAll(pieces) == [k \in 1..Len(pieces) |-> Strip(pieces[k])]
\* every piece but the last is longer than the threshold and within the limit
NonFinalLengths(pieces, limit, rule) ==
    \A k \in 1..(Len(pieces) - 1) :
        rule.den * Len(pieces[k]) > rule.num * limit /\ Len(pieces[k]) <= limit
\* the text is a single sentence of a single paragraph, longer than CHUNK_SIZE
OneLongSentence(t) ==
    /\ Len(t) > CHUNK_SIZE
    /\ Len(Paragraphs(t)) = 1
    /\ _split_sentences(t) = <<t>>
\* the text is a single paragraph longer than max_chars
OneLongParagraph(t) == Len(t) > PREPROCESS_CHUNK_SIZE /\ Len(Paragraphs(t)) = 1
FollowsRule(t, cs, limit, rule) ==
    /\ cs = NonEmpty(StripAll(RulePieces(t, 0, limit, rule)))
    /\ NonFinalLengths(RulePieces(t, 0, limit, rule), limit, rule)

\* C26 as stated: the hard cut of split_into_chunks is made at the last whitespace
\* character of the window, and that of _split_preprocess_chunks at the last
\* whitespace or sentence punctuation ('. ', '! ', '? ', '.' and a newline) of the
\* window, when that position lies
\* beyond 0.6 (0.5) of the limit, and after exactly limit characters otherwise.
C26_HardCutAtWhitespace ==
    /\ (seg = "translate" /\ OneLongSentence(text)) =>
          FollowsRule(text, chunks, CHUNK_SIZE, WhitespaceRule)
    /\ (seg = "preprocess" /\ OneLongParagraph(text)) =>
          FollowsRule(text, chunks, PREPROCESS_CHUNK_SIZE, WhitespaceBreakRule)

\* C26 amended: the hard cut of split_into_chunks is made before the last space
\* character of the window if its index is beyond 0.6 of the limit; that of
\* _split_preprocess_chunks after the last space or the last '.' followed by a
\* newline, if its index is beyond 0.5 of the limit; otherwise the cut is made
\* exactly limit characters after the window start.  Every non-final piece is
\* longer than the threshold fraction of the limit and at most the limit.
C26_HardCutRule ==
    /\ (seg = "translate" /\ OneLongSentence(text)) =>
          FollowsRule(text, chunks, CHUNK_SIZE, SpaceRule)
    /\ (seg = "preprocess" /\ OneLongParagraph(text)) =>
          FollowsRule(text, chunks, PREPROCESS_CHUNK_SIZE, BreakRule)

\* C26 witness: split_into_chunks hard-cut a sentence whose first piece ends at a
\* space short of the limit and whose second piece is a full window.
C26_Witness ==
    /\ seg = "translate"
    /\ OneLongSentence(text)
    /\ LET pieces == RulePieces(text, 0, CHUNK_SIZE, SpaceRule)
       IN /\ Len(pieces) = 3
          /\ Len(pieces[1]) < CHUNK_SIZE
          /\ Len(pieces[2]) = CHUNK_SIZE
    /\ Len(chunks) = 3

\* the pieces of t when every ender, with the closers that follow it, ends a piece
RECURSIVE EnderPieces(_, _, _)
EnderPieces(t, i, start) ==
    IF i >= Len(t)
    THEN IF start < Len(t) THEN <<Slice(t, start, Len(t))>> ELSE <<>>
    ELSE IF CharAt(t, i) \in enders
         THEN LET j == SkipClosers(t, i + 1) IN
              <<Slice(t, start, j)>> \o EnderPieces(t, j, j)
         ELSE EnderPieces(t, i + 1, start)

\* C27: _split_sentences ends a sentence at every Latin or CJK ender, after the
\* closing quotes and brackets that follow it, and returns the sentences in
\* order, trimmed and without the empty ones.
C27_EveryEnderIsBoundary ==
    seg = "sentences" => chunks = NonEmpty(StripAll(EnderPieces(text, 0, 0)))

\* ------------------------------------------------------------------------
\* The while loops of the segmenters, one iteration per step: the hard cut of
\* split_into_chunks on a sentence longer than CHUNK_SIZE, the hard cut of
\* _split_preprocess_chunks on a paragraph longer than max_chars, and the scan of
\* _split_sentences over a paragraph.  A started loop keeps running (weak
\* fairness): the program is sequential.
\* ------------------------------------------------------------------------
\* longest input text of the loop specification
MaxLoopLen == 6
LoopTexts == UNION {[1..n -> Alphabet] : n \in 0..MaxLoopLen}
Entered == [i |-> 0, start |-> 0, running |-> TRUE]

InitLoops ==
    /\ text = <<>>
    /\ seg = "none"
    /\ chunks = <<>>
    /\ cursor = NoCursor
    /\ PipelineIdle

\* the text handed to the segmenter
ReadText ==
    /\ seg = "none"
    /\ text = <<>>
    /\ text' \in LoopTexts \ {<<>>}
    /\ UNCHANGED <<seg, chunks, cursor, pipeVars>>

EnterTransHardCut ==
    /\ seg = "none"
    /\ OneLongSentence(text)
    /\ seg' = "translate_cut"
    /\ cursor' = Entered
    /\ UNCHANGED <<text, chunks, pipeVars>>

TransHardCutStep ==
    /\ seg = "translate_cut"
    /\ cursor.running
    /\ IF cursor.i < Len(text)
       THEN \E st \in {TransCutStep(text, cursor.i)} :
            /\ chunks' = Append(chunks, Strip(st.part))
            /\ cursor' = [cursor EXCEPT !.i = st.end]
       ELSE /\ cursor' = [cursor EXCEPT !.running = FALSE]
            /\ UNCHANGED chunks
    /\ UNCHANGED <<text, seg, pipeVars>>

EnterPreHardCut ==
    /\ seg = "none"
    /\ OneLongParagraph(text)
    /\ seg' = "preprocess_cut"
    /\ cursor' = Entered
    /\ UNCHANGED <<text, chunks, pipeVars>>

PreHardCutStep ==
    /\ seg = "preprocess_cut"
    /\ cursor.running
    /\ IF cursor.i < Len(text)
       THEN \E st \in {PreCutStep(text, cursor.i, PREPROCESS_CHUNK_SIZE)} :
            /\ chunks' = Append(chunks, Strip(st.chunk))
            /\ cursor' = [cursor EXCEPT !.i = st.end]
       ELSE /\ cursor' = [cursor EXCEPT !.running = FALSE]
            /\ UNCHANGED chunks
    /\ UNCHANGED <<text, seg, pipeVars>>

EnterSplitSentences ==
    /\ seg = "none"
    /\ Len(Paragraphs(text)) = 1
    /\ seg' = "sentence_loop"
    /\ cursor' = Entered
    /\ UNCHANGED <<text, chunks, pipeVars>>

SplitSentencesStep ==
    /\ seg = "sentence_loop"
    /\ cursor.running
    /\ IF cursor.i < Len(text)
       THEN \E st \in {SentStep(text, cursor.i, cursor.start, chunks)} :
            /\ chunks' = st.sents
            /\ cursor' = [cursor EXCEPT !.i = st.i, !.start = st.start]
       ELSE /\ chunks' = SentRemainder(text, cursor.start, chunks)
            /\ cursor' = [cursor EXCEPT !.running = FALSE]
    /\ UNCHANGED <<text, seg, pipeVars>>

NextLoops ==
    \/ ReadText
    \/ EnterTransHardCut
    \/ TransHardCutStep
    \/ EnterPreHardCut
    \/ PreHardCutStep
    \/ EnterSplitSentences
    \/ SplitSentencesStep

SpecLoops ==
    /\ InitLoops
    /\ [][NextLoops]_vars
    /\ WF_vars(TransHardCutStep)
    /\ WF_vars(PreHardCutStep)
    /\ WF_vars(SplitSentencesStep)

\* C28: every iteration of the hard-cut loops and of the sentence scan moves the
\* loop index forward by at least one character, whichever cut is taken, and a
\* loop that was entered comes to its end.
C28_SegmentationTerminates ==
    /\ [][(cursor.running /\ cursor'.running) => cursor'.i >= cursor.i + 1]_vars
    /\ (cursor.running ~> ~cursor.running)

\* C28 witness: the hard cut of split_into_chunks has ended after a cut at a space
\* and a last window, with the chunks the function itself returns.
C28_Witness ==
    /\ seg = "translate_cut"
    /\ ~cursor.running
    /\ cursor.i = Len(text)
    /\ Len(chunks) = 2
    /\ Len(chunks[1]) < CHUNK_SIZE
    /\ text[CHUNK_SIZE] = SP
    /\ NonEmpty(chunks) = split_into_chunks(text)

\* C29: in the speech stage a chapter counted as successful has its full audio
\* file, whatever the number of chunks its text was split into, zero included.
C29_SuccessImpliesArtifact ==
    stage = "speech" =>
        \A c \in Chapters : reported[c] = "done" => files[<<c, 0>>].exists

\* C30: the deque never holds more than TTS_QPM timestamps and holds them oldest
\* first; whenever wait_if_needed is called its second wait does not sleep,
\* however long the first sleep overslept; so a retry loop never has more
\* limiter sleeps than calls of wait_if_needed.
C30_WindowWaitNeverSleeps ==
    stage = "speech" =>
        /\ Len(request_times) <= TTS_QPM
        /\ \A k \in 1..(Len(request_times) - 1) : request_times[k] >= request_times[k + 1]
        /\ (pc = "attempt" /\ attempt < max_retries) =>
              \A o1 \in Oversleep, o2 \in Oversleep :
                  ~wait_if_needed(request_times, o1, o2).capped
        /\ limiterSleeps <= loopCalls

\* C30 witness: wait_if_needed has just been called with a full deque whose last
\* timestamp was younger than min_delay, and slept once.
C30_Witness ==
    /\ stage = "speech"
    /\ pc = "call"
    /\ Len(admitted) = TTS_QPM + 1
    /\ Len(request_times) = TTS_QPM
    /\ loopCalls = 1
    /\ limiterSleeps = 1
    /\ request_times[1] < WINDOW

====
